---- MODULE Spec2Model ----
(***************************************************************************)
(* A model of firego (src/firebase.go): the Firebase reference, its URL    *)
(* sanitisation, its request executor doRequest, the redirect policy       *)
(* redirectPreserveHeaders and the dial hook of the default transport.     *)
(*                                                                         *)
(* Go strings are modelled as sequences of one-character strings, so that  *)
(* strings.HasPrefix, strings.HasSuffix, slicing and concatenation are      *)
(* computed as the code computes them.                                     *)
(***************************************************************************)
EXTENDS Integers, Sequences, FiniteSets, TLC

VARIABLES
    refs,        \* the heap of *Firebase values, in order of allocation
    maps,        \* the heap of url.Values maps, in order of allocation
    clients,     \* the heap of *http.Client values
    nchans,      \* number of channels made so far by make(chan struct{})
    panicked,    \* TRUE once a call has panicked (assignment to entry in nil map)
    origin,      \* history: how each reference was made, and its parent's query then
    hist,        \* history: the last call made, and the query map before it
    sanPc, sanIn, sanOut,     \* the URL sanitiser applied once and twice
    reqPc, reqIn, reqRes,     \* one call of doRequest: its inputs and what it returned
    rdPc,        \* where client.Do is in following a redirect chain
    rdGiven,     \* the client argument New was called with
    rdClient,    \* the client the reference holds
    rdVia,       \* the headers of the requests made so far, oldest first
    rdLast,      \* history: the last call of the redirect policy
    rdRes,       \* what doRequest returned for the chain
    trRHT,       \* tr.ResponseHeaderTimeout of the transport New builds
    dl           \* the requests in flight through that transport

refVars == <<refs, maps, clients, nchans, panicked, origin, hist>>
sanVars == <<sanPc, sanIn, sanOut>>
reqVars == <<reqPc, reqIn, reqRes>>
rdVars == <<rdPc, rdGiven, rdClient, rdVia, rdLast, rdRes>>
dialVars == <<trRHT, dl>>
restVars == <<sanVars, reqVars, rdVars, dialVars>>
vars == <<refs, maps, clients, nchans, panicked, origin, hist, sanPc, sanIn, sanOut,
          reqPc, reqIn, reqRes, rdPc, rdGiven, rdClient, rdVia, rdLast, rdRes,
          trRHT, dl>>

(***************************************************************************)
(* Bounds                                                                  *)
(***************************************************************************)
MaxRefs == 2           \* most references allocated in one run
MaxCallerHops == 3     \* longest redirect chain tried through a caller's client
MaxInFlight == 2       \* concurrent requests through one transport
MaxBodyLen == 3        \* longest host/path part of an input URL of sanitizeURL

(***************************************************************************)
(* Strings                                                                 *)
(***************************************************************************)
HTTPS == <<"h", "t", "t", "p", "s", ":", "/", "/">>
HTTP == <<"h", "t", "t", "p", ":", "/", "/">>
SLASH == <<"/">>

\* strings.HasPrefix
HasPrefix(s, p) ==
    /\ Len(s) >= Len(p)
    /\ SubSeq(s, 1, Len(p)) = p

\* strings.HasSuffix
HasSuffix(s, p) ==
    /\ Len(s) >= Len(p)
    /\ SubSeq(s, Len(s) - Len(p) + 1, Len(s)) = p

\* func sanitizeURL(url string) string
sanitizeURL(url) ==
    LET u1 == IF ~HasPrefix(url, HTTPS) /\ ~HasPrefix(url, HTTP)
              THEN HTTPS \o url
              ELSE url
    IN IF HasSuffix(u1, SLASH) THEN SubSeq(u1, 1, Len(u1) - 1) ELSE u1

(***************************************************************************)
(* url.Values: a map from key to a list of values; a Go map may be nil.    *)
(***************************************************************************)
authParam == "auth"
accessTokenParam == "access_token"
shallowParam == "shallow"

\* the keys in the order sort.Strings puts them
SortedKeys == <<accessTokenParam, authParam, shallowParam>>

EmptyMap == <<>>
NilValues == [nil |-> TRUE, m |-> EmptyMap]       \* a nil url.Values
MakeValues == [nil |-> FALSE, m |-> EmptyMap]     \* _url.Values{}

\* m[key] = val on a Go map
MapPut(m, key, val) ==
    [k \in DOMAIN m \cup {key} |-> IF k = key THEN val ELSE m[k]]

\* delete(m, key) on a Go map
MapDel(m, key) ==
    [k \in DOMAIN m \ {key} |-> m[k]]

\* url.Values.Encode: the key=value pairs, sorted by key
RECURSIVE EncodeFrom(_, _)
EncodeFrom(m, i) ==
    IF i > Len(SortedKeys) THEN <<>>
    ELSE LET k == SortedKeys[i]
         IN (IF k \in DOMAIN m
             THEN [j \in 1..Len(m[k]) |-> <<k, m[k][j]>>]
             ELSE <<>>) \o EncodeFrom(m, i + 1)

Encode(v) == EncodeFrom(v.m, 1)

\* url.ParseQuery: m[key] = append(m[key], value) for each pair
RECURSIVE ParseInto(_, _)
ParseInto(m, q) ==
    IF q = <<>> THEN m
    ELSE LET k == Head(q)[1]
             old == IF k \in DOMAIN m THEN m[k] ELSE <<>>
         IN ParseInto(MapPut(m, k, Append(old, Head(q)[2])), Tail(q))

ParseQuery(q) == [nil |-> FALSE, m |-> ParseInto(EmptyMap, q)]

\* url.Values.Add
ValuesAdd(v, key, val) ==
    [v EXCEPT !.m = MapPut(v.m, key,
                           Append(IF key \in DOMAIN v.m THEN v.m[key] ELSE <<>>, val))]

(***************************************************************************)
(* Go error values.  kind is the dynamic type; wraps holds the wrapped     *)
(* error of a *url.Error or of ErrTimeout; msg is the text of errors.New.  *)
(*   "plain"        an error with no Timeout method                        *)
(*   "timeoutOnly"  an error with Timeout() = true and no Temporary(), so  *)
(*                  not a net.Error                                        *)
(*   "net"          a net.Error that is not a *url.Error such as net.OpError       *)
(*   "url"          a *url.Error                                           *)
(***************************************************************************)
NoErr == [kind |-> "nil", timeout |-> FALSE, wraps |-> <<>>, msg |-> ""]
PlainErr == [kind |-> "plain", timeout |-> FALSE, wraps |-> <<>>, msg |-> ""]
TimeoutOnlyErr == [kind |-> "timeoutOnly", timeout |-> TRUE, wraps |-> <<>>, msg |-> ""]
NetErr(t) == [kind |-> "net", timeout |-> t, wraps |-> <<>>, msg |-> ""]
UrlErr(inner) == [kind |-> "url", timeout |-> FALSE, wraps |-> <<inner>>, msg |-> ""]

\* errors.New(text)
ErrorsNew(text) == [kind |-> "errorString", timeout |-> FALSE, wraps |-> <<>>, msg |-> text]

\* type ErrTimeout struct { error }
ErrTimeout(err) == [kind |-> "ErrTimeout", timeout |-> FALSE, wraps |-> <<err>>, msg |-> ""]

\* the value has a Timeout() bool method
HasTimeoutMethod(e) == e.kind \in {"timeoutOnly", "net", "url"}

\* the value satisfies the interface net.Error (Timeout and Temporary)
IsNetError(e) == e.kind \in {"net", "url"}

\* e.Timeout(); url.Error.Timeout asks the wrapped error when it has the method
RECURSIVE Timeout(_)
Timeout(e) ==
    IF e.kind = "url"
    THEN HasTimeoutMethod(e.wraps[1]) /\ Timeout(e.wraps[1])
    ELSE e.timeout

(***************************************************************************)
(* doRequest.  The transport's answer to fb.client.Do(req) is the pair     *)
(* (resp, err); a response is its status code, its body and whether        *)
(* ioutil.ReadAll succeeds on the body.                                    *)
(***************************************************************************)
NoBytes == <<>>               \* a nil []byte
Bytes(b) == <<b>>             \* a non-nil []byte holding b

Response(status, body, readOk) == [status |-> status, body |-> body, readOk |-> readOk]
ReadAllErr == [kind |-> "plain", timeout |-> FALSE, wraps |-> <<>>, msg |-> "read"]
NewRequestErr == [kind |-> "plain", timeout |-> FALSE, wraps |-> <<>>, msg |-> "newrequest"]

\* the switch with "case net.Error" returning err without asking Timeout()
ClassifyErr_NetNotAsked(err) ==
    CASE err.kind = "url" ->
            IF IsNetError(err.wraps[1]) /\ Timeout(err.wraps[1])
            THEN ErrTimeout(err)
            ELSE err
      [] OTHER -> err

\* the switch err := err.(type) of doRequest
ClassifyErr(err) ==
    CASE err.kind = "url" ->
            IF IsNetError(err.wraps[1]) /\ Timeout(err.wraps[1])
            THEN ErrTimeout(err)
            ELSE err
      [] err.kind # "url" /\ IsNetError(err) ->
            IF Timeout(err) THEN ErrTimeout(err) ELSE err
      [] OTHER -> err

\* if resp.StatusCode/200 != 1
StatusIsError(status) == status \div 200 # 1

\* func (fb *Firebase) doRequest(ctx, method, body) ([]byte, error)
doRequest(newReqOk, out) ==
    IF ~newReqOk THEN [bytes |-> NoBytes, err |-> NewRequestErr]
    ELSE IF out.err # NoErr THEN [bytes |-> NoBytes, err |-> ClassifyErr(out.err)]
    ELSE IF ~out.resp.readOk THEN [bytes |-> NoBytes, err |-> ReadAllErr]
    ELSE IF StatusIsError(out.resp.status)
         THEN [bytes |-> NoBytes, err |-> ErrorsNew(out.resp.body)]
    ELSE [bytes |-> Bytes(out.resp.body), err |-> NoErr]

\* the errors a transport can hand back
InnerErrs == {PlainErr, TimeoutOnlyErr, NetErr(TRUE), NetErr(FALSE)}
TransportErrs ==
    InnerErrs \cup {UrlErr(e) : e \in InnerErrs}
              \cup {UrlErr(UrlErr(e)) : e \in InnerErrs}

StatusCodes == {100, 101, 199, 200, 201, 204, 299, 300, 301, 304, 399, 400, 401, 404, 500, 503, 599}
ResponseBodies == {"", "null", "{}", "{\"name\":\"k\"}", "permission denied"}

NoResponse == Response(0, "", FALSE)
TransportOutcomes ==
    {[err |-> e, resp |-> NoResponse] : e \in TransportErrs}
    \cup {[err |-> NoErr, resp |-> Response(st, b, ok)] :
             st \in StatusCodes, b \in ResponseBodies, ok \in BOOLEAN}

(***************************************************************************)
(* The Firebase reference.  A Go map is a reference to storage: maps is    *)
(* the heap of the url.Values maps made so far, and the params field of a  *)
(* reference is an index into it, or NilMap for a nil map.                 *)
(***************************************************************************)
NilClient == 0          \* client == nil
NilTokenSrc == 0        \* a nil oauth2.TokenSource
NilChan == 0            \* a nil chan struct{}
NilMap == 0             \* a nil url.Values
TokenSources == {1}
Tokens == {"t1", "t2"}  \* custom auth tokens passed to Auth

\* what tokenSrc.Token() returns: (token, err)
TokenResults ==
    {[err |-> TRUE, token |-> <<>>], [err |-> FALSE, token |-> <<>>],
     [err |-> FALSE, token |-> <<"at1">>], [err |-> FALSE, token |-> <<"at2">>]}

\* the client a caller brings to New: no CheckRedirect, the caller's transport
CallerClient == [checkRedirect |-> "nil", transport |-> "caller"]

\* the client New builds when client == nil
DefaultClient == [checkRedirect |-> "redirectPreserveHeaders", transport |-> "tr"]

JSONSUFFIX == <<"/", ".", "j", "s", "o", "n">>

\* fb.params as a value: what reading the map gives (a nil map reads as empty)
ValuesIn(heap, fb) ==
    IF fb.params = NilMap THEN NilValues ELSE [nil |-> FALSE, m |-> heap[fb.params]]

Values(fb) == ValuesIn(maps, fb)

\* func (fb *Firebase) String() string; tok is what tokenSrc.Token() returns
String(fb, tok) ==
    LET path == fb.url \o JSONSUFFIX
        parsed == ParseQuery(Encode(Values(fb)))
        paramsCopy == IF fb.tokenSrc # NilTokenSrc /\ ~tok.err /\ tok.token # <<>>
                      THEN ValuesAdd(parsed, accessTokenParam, tok.token[1])
                      ELSE parsed
    IN IF Cardinality(DOMAIN paramsCopy.m) > 0
       THEN [path |-> path, hasQuery |-> TRUE, query |-> Encode(paramsCopy)]
       ELSE [path |-> path, hasQuery |-> FALSE, query |-> <<>>]

\* json.Unmarshal(bytes, &m) with m a map[string]string, then m["name"]
UnmarshalOk(body) == body \in {"null", "{}", "{\"name\":\"k\"}"}
NameOf(body) == IF body = "{\"name\":\"k\"}" THEN <<"k">> ELSE <<>>

\* copy with c.params = fb.params: the child shares its parent's map
copy_SharedMap(fb, heap, ch) ==
    [ref |-> [url |-> fb.url,
              params |-> fb.params,
              client |-> fb.client,
              tokenSrc |-> fb.tokenSrc,
              watching |-> FALSE,
              stopWatching |-> ch],
     heap |-> heap]

\* func (fb *Firebase) copy() *Firebase: the new reference and the heap after it
copy(fb, heap, ch) ==
    LET src == ValuesIn(heap, fb).m
    IN [ref |-> [url |-> fb.url,
                 params |-> Len(heap) + 1,
                 client |-> fb.client,
                 tokenSrc |-> fb.tokenSrc,
                 watching |-> FALSE,
                 stopWatching |-> ch],
        heap |-> Append(heap, [k \in DOMAIN src |-> src[k]])]

\* the transport's answers tried for the POST of Push
PushOutcomes ==
    {[err |-> e, resp |-> NoResponse] : e \in {PlainErr, UrlErr(NetErr(TRUE))}}
    \cup {[err |-> NoErr, resp |-> Response(st, b, TRUE)] :
             st \in {200, 404}, b \in ResponseBodies}
    \cup {[err |-> NoErr, resp |-> Response(200, "{}", FALSE)]}

NewURLs == {<<"a">>, <<"a", "/">>, <<"a", "/", "/">>, HTTP \o <<"a">>, HTTPS}
ChildNames == {<<"b">>, <<"b", "/">>, <<>>}

\* hist remembers the query map before the last Auth call, through a following
\* Unauth call on the same reference; any other call forgets it.
NoHist == [op |-> "none", ref |-> 0, pre |-> NilValues]
Other == [op |-> "other", ref |-> 0, pre |-> NilValues]

\* origin remembers, for a reference made by Child, the encoded query map and the
\* token source of its parent at that moment, whether a method that changes a
\* reference has since been called on the child (touched) and on the parent
\* (parentTouched); it forgets the query and token source once both are.
Origin(kind, parent, query, src) ==
    [kind |-> kind, parent |-> parent, query |-> query, tokenSrc |-> src,
     touched |-> FALSE, parentTouched |-> FALSE]
Forget(o) ==
    IF o.touched /\ o.parentTouched
    THEN [o EXCEPT !.query = <<>>, !.tokenSrc = NilTokenSrc]
    ELSE o
Touch(i) ==
    [j \in DOMAIN origin |->
        IF origin[j].kind # "Child" THEN origin[j]
        ELSE IF j = i THEN Forget([origin[j] EXCEPT !.touched = TRUE])
        ELSE IF origin[j].parent = i THEN Forget([origin[j] EXCEPT !.parentTouched = TRUE])
        ELSE origin[j]]

(***************************************************************************)
(* The parts of the state a specification leaves at rest                   *)
(***************************************************************************)
SanIdle ==
    /\ sanPc = "input"
    /\ sanIn = <<>>
    /\ sanOut = <<>>

ReqIdle ==
    /\ reqPc = "idle"
    /\ reqIn = [newReqOk |-> TRUE, out |-> [err |-> NoErr, resp |-> NoResponse]]
    /\ reqRes = [bytes |-> NoBytes, err |-> NoErr]

NoClient == [checkRedirect |-> "nil", transport |-> "none"]
NoPolicyCall == [n |-> 0, rejected |-> FALSE, proposed |-> <<>>]

RdIdle ==
    /\ rdPc = "new"
    /\ rdGiven = NilClient
    /\ rdClient = NoClient
    /\ rdVia = <<>>
    /\ rdLast = NoPolicyCall
    /\ rdRes = [bytes |-> NoBytes, err |-> NoErr]

DialIdle ==
    /\ trRHT = 0
    /\ dl = [q \in 1..MaxInFlight |-> [pc |-> "idle", elapsed |-> 0, budget |-> 0]]

RefInit ==
    /\ refs = <<>>
    /\ maps = <<>>
    /\ clients = <<CallerClient>>
    /\ nchans = 0
    /\ panicked = FALSE
    /\ origin = <<>>
    /\ hist = NoHist

\* func New(url string, client *http.Client) *Firebase
New(url, client) ==
    /\ ~panicked
    /\ Len(refs) < MaxRefs
    /\ LET cl == IF client = NilClient THEN Len(clients) + 1 ELSE client
       IN /\ clients' = IF client = NilClient THEN Append(clients, DefaultClient)
                        ELSE clients
          /\ refs' = Append(refs, [url |-> sanitizeURL(url),
                                   params |-> Len(maps) + 1,
                                   client |-> cl,
                                   tokenSrc |-> NilTokenSrc,
                                   watching |-> FALSE,
                                   stopWatching |-> nchans + 1])
    /\ maps' = Append(maps, EmptyMap)
    /\ nchans' = nchans + 1
    /\ origin' = Append(origin, Origin("New", 0, <<>>, NilTokenSrc))
    /\ hist' = Other
    /\ UNCHANGED <<panicked, restVars>>

\* func (fb *Firebase) AccessToken(tokenSource oauth2.TokenSource)
AccessToken(i, src) ==
    /\ ~panicked
    /\ refs' = [refs EXCEPT ![i].tokenSrc = src]
    /\ origin' = Touch(i)
    /\ hist' = Other
    /\ UNCHANGED <<maps, clients, nchans, panicked, restVars>>

\* func (fb *Firebase) Auth(token string): fb.params.Set(authParam, token)
Auth(i, token) ==
    /\ ~panicked
    /\ IF refs[i].params = NilMap
       THEN /\ panicked' = TRUE          \* assignment to entry in nil map
            /\ UNCHANGED maps
       ELSE /\ maps' = [maps EXCEPT ![refs[i].params] = MapPut(@, authParam, <<token>>)]
            /\ UNCHANGED panicked
    /\ origin' = Touch(i)
    /\ hist' = [op |-> "Auth", ref |-> i, pre |-> Values(refs[i])]
    /\ UNCHANGED <<refs, clients, nchans, restVars>>

\* Unauth resetting the whole query map instead of deleting one key
Unauth_ClearsAll(i) ==
    /\ ~panicked
    /\ maps' = IF refs[i].params = NilMap THEN maps
               ELSE [maps EXCEPT ![refs[i].params] = EmptyMap]
    /\ origin' = Touch(i)
    /\ hist' = IF hist.op = "Auth" /\ hist.ref = i
               THEN [op |-> "AuthUnauth", ref |-> i, pre |-> hist.pre]
               ELSE Other
    /\ UNCHANGED <<refs, clients, nchans, panicked, restVars>>

\* func (fb *Firebase) Unauth(): fb.params.Del(authParam)
Unauth(i) ==
    /\ ~panicked
    /\ maps' = IF refs[i].params = NilMap THEN maps
               ELSE [maps EXCEPT ![refs[i].params] = MapDel(@, authParam)]
    /\ origin' = Touch(i)
    /\ hist' = IF hist.op = "Auth" /\ hist.ref = i
               THEN [op |-> "AuthUnauth", ref |-> i, pre |-> hist.pre]
               ELSE Other
    /\ UNCHANGED <<refs, clients, nchans, panicked, restVars>>

\* Shallow(v bool): sets or removes the shallow query parameter
Shallow(i, v) ==
    /\ ~panicked
    /\ IF refs[i].params = NilMap
       THEN /\ panicked' = v             \* Set panics on a nil map, Del does not
            /\ UNCHANGED maps
       ELSE /\ maps' = [maps EXCEPT ![refs[i].params] =
                           IF v THEN MapPut(@, shallowParam, <<"true">>)
                           ELSE MapDel(@, shallowParam)]
            /\ UNCHANGED panicked
    /\ origin' = Touch(i)
    /\ hist' = Other
    /\ UNCHANGED <<refs, clients, nchans, restVars>>

\* func (fb *Firebase) Child(child string) *Firebase
Child(i, child) ==
    /\ ~panicked
    /\ Len(refs) < MaxRefs
    /\ LET c == copy(refs[i], maps, nchans + 1)
       IN /\ refs' = Append(refs, [c.ref EXCEPT !.url = c.ref.url \o SLASH \o child])
          /\ maps' = c.heap
    /\ nchans' = nchans + 1
    /\ origin' = Append(origin, Origin("Child", i, Encode(Values(refs[i])), refs[i].tokenSrc))
    /\ hist' = Other
    /\ UNCHANGED <<clients, panicked, restVars>>

\* func (fb *Firebase) PushC(ctx, v); Push calls it with a nil ctx
Push(i, marshalOk, newReqOk, out) ==
    /\ ~panicked
    /\ Len(refs) < MaxRefs
    /\ LET res == IF marshalOk THEN doRequest(newReqOk, out)
                  ELSE [bytes |-> NoBytes, err |-> PlainErr]
       IN IF res.err # NoErr \/ ~UnmarshalOk(res.bytes[1])
          THEN UNCHANGED <<refs, origin>>
          ELSE /\ refs' = Append(refs, [url |-> refs[i].url \o SLASH \o NameOf(res.bytes[1]),
                                        params |-> NilMap,
                                        client |-> refs[i].client,
                                        tokenSrc |-> NilTokenSrc,
                                        watching |-> FALSE,
                                        stopWatching |-> NilChan])
               /\ origin' = Append(origin, Origin("Push", i, <<>>, NilTokenSrc))
    /\ hist' = Other
    /\ UNCHANGED <<maps, clients, nchans, panicked, restVars>>

Next ==
    \/ \E u \in NewURLs, c \in {NilClient, 1} : New(u, c)
    \/ \E i \in DOMAIN refs, src \in TokenSources \cup {NilTokenSrc} : AccessToken(i, src)
    \/ \E i \in DOMAIN refs, t \in Tokens : Auth(i, t)
    \/ \E i \in DOMAIN refs : Unauth(i)
    \/ \E i \in DOMAIN refs, v \in BOOLEAN : Shallow(i, v)
    \/ \E i \in DOMAIN refs, n \in ChildNames : Child(i, n)
    \/ \E i \in DOMAIN refs, mOk \in BOOLEAN, rOk \in BOOLEAN, out \in PushOutcomes :
          Push(i, mOk, rOk, out)

Init == RefInit /\ SanIdle /\ ReqIdle /\ RdIdle /\ DialIdle
Spec == Init /\ [][Next]_vars

(***************************************************************************)
(* The same operations with one input URL, one child name and the client   *)
(* New builds itself: the runs in which only the query map, the token      *)
(* source and the derivations vary.                                        *)
(***************************************************************************)
QueryPushOutcomes ==
    {[err |-> NoErr, resp |-> Response(200, "{\"name\":\"k\"}", TRUE)],
     [err |-> NoErr, resp |-> Response(404, "permission denied", TRUE)]}

QueryNext ==
    \/ New(<<"a">>, NilClient)
    \/ \E i \in DOMAIN refs, src \in TokenSources \cup {NilTokenSrc} : AccessToken(i, src)
    \/ \E i \in DOMAIN refs, t \in Tokens : Auth(i, t)
    \/ \E i \in DOMAIN refs : Unauth(i)
    \/ \E i \in DOMAIN refs, v \in BOOLEAN : Shallow(i, v)
    \/ \E i \in DOMAIN refs : Child(i, <<"b">>)
    \/ \E i \in DOMAIN refs, out \in QueryPushOutcomes : Push(i, TRUE, TRUE, out)

SpecQuery == Init /\ [][QueryNext]_vars

(***************************************************************************)
(* Properties of the reference                                             *)
(***************************************************************************)
Pushed(i) == origin[i].kind = "Push"
FreshChild(i) == origin[i].kind = "Child" /\ ~origin[i].touched
TokenResolves(tok) == ~tok.err /\ tok.token # <<>>

\* C5: a reference returned by Push has its parent's path followed by "/" and the
\* generated key, shares the parent's client, and has a query map and a
\* cancellation channel of its own (neither is nil), so no later call on it panics.
C5_PushedReferenceUsable ==
    /\ \A i \in DOMAIN refs :
          Pushed(i) =>
             /\ HasPrefix(refs[i].url, refs[origin[i].parent].url \o SLASH)
             /\ refs[i].client = refs[origin[i].parent].client
             /\ refs[i].params # NilMap
             /\ refs[i].stopWatching # NilChan
             /\ ~refs[i].watching
    /\ ~panicked

\* C7: the path of every reference begins with "http://" or "https://" and does
\* not end with a slash.
C7_PathNormalized ==
    \A i \in DOMAIN refs :
       /\ HasPrefix(refs[i].url, HTTP) \/ HasPrefix(refs[i].url, HTTPS)
       /\ ~HasSuffix(refs[i].url, SLASH)

\* C6 as stated: whatever is called on r after c = r.Child(name), the query string
\* of c.String() is the encoding of r's query map at the time of derivation.
C6_ChildQueryIsParentQuery ==
    \A c \in DOMAIN refs :
       FreshChild(c) =>
          \A tok \in TokenResults : String(refs[c], tok).query = origin[c].query

\* C6 as amended, the state part: the query string of c.String() is the encoding
\* of r's query map at derivation, preceded by the access_token pair when r had a
\* token source at derivation and that source yields a token at render time.
C6_ChildQueryState ==
    \A c \in DOMAIN refs :
       FreshChild(c) =>
          \A tok \in TokenResults :
             String(refs[c], tok).query =
                IF origin[c].tokenSrc # NilTokenSrc /\ TokenResolves(tok)
                THEN <<<<accessTokenParam, tok.token[1]>>>> \o origin[c].query
                ELSE origin[c].query

\* C6 as amended, the other direction: whatever is called on c, the query map and
\* the token source of r stay as they were at derivation while nothing is called on r.
C6_ParentQueryState ==
    \A c \in DOMAIN refs :
       (origin[c].kind = "Child" /\ ~origin[c].parentTouched) =>
          /\ Encode(Values(refs[origin[c].parent])) = origin[c].query
          /\ refs[origin[c].parent].tokenSrc = origin[c].tokenSrc

\* C6 (amended): the query string a child renders is fixed at derivation, up to the
\* live access token, whatever is called on the parent, and calls on the child
\* change neither the parent's query map nor its token source.
C6_ChildQueryIndependent == C6_ChildQueryState /\ C6_ParentQueryState

\* a child derived from a parent with a query and a token source, whose parent's
\* query map and token source have changed since
C6_Witness ==
    \E c \in DOMAIN refs :
       /\ FreshChild(c)
       /\ origin[c].parentTouched
       /\ origin[c].query # <<>>
       /\ origin[c].tokenSrc # NilTokenSrc
       /\ Encode(Values(refs[origin[c].parent])) # origin[c].query
       /\ refs[origin[c].parent].tokenSrc = NilTokenSrc

\* C9 as stated: Auth(t) followed by Unauth() leaves the query map exactly as it
\* was before Auth(t), also when an auth parameter was already set.
C9_AuthUnauthRestores ==
    hist.op = "AuthUnauth" => Values(refs[hist.ref]) = hist.pre

\* C9 (amended): Auth(t) followed by Unauth() leaves the query map as it was before
\* Auth(t) with the auth key removed, every other key unchanged; on a reference
\* whose map is nil (one returned by Push) Auth(t) panics and changes nothing.
C9_AuthUnauthRemovesAuth ==
    /\ hist.op = "AuthUnauth" =>
          /\ ~hist.pre.nil
          /\ Values(refs[hist.ref]) =
                [nil |-> FALSE,
                 m |-> [k \in DOMAIN hist.pre.m \ {authParam} |-> hist.pre.m[k]]]
    /\ (hist.op = "Auth" /\ panicked) =>
          /\ hist.pre.nil
          /\ refs[hist.ref].params = NilMap
    /\ (hist.op = "Auth" /\ ~panicked) =>
          /\ ~hist.pre.nil
          /\ authParam \in DOMAIN Values(refs[hist.ref]).m
          /\ \A k \in DOMAIN hist.pre.m \ {authParam} :
                /\ k \in DOMAIN Values(refs[hist.ref]).m
                /\ Values(refs[hist.ref]).m[k] = hist.pre.m[k]

\* Auth then Unauth on a reference that already had an auth and a shallow parameter
C9_Witness ==
    /\ hist.op = "AuthUnauth"
    /\ authParam \in DOMAIN hist.pre.m
    /\ shallowParam \in DOMAIN hist.pre.m
    /\ shallowParam \in DOMAIN Values(refs[hist.ref]).m

(***************************************************************************)
(* The sanitiser on its own: inputs are an optional scheme followed by a   *)
(* body over the characters "a" and "/".                                   *)
(***************************************************************************)
BodyChars == {"a", "/"}

RECURSIVE BodiesOfLen(_)
BodiesOfLen(n) ==
    IF n = 0 THEN {<<>>}
    ELSE {Append(b, c) : b \in BodiesOfLen(n - 1), c \in BodyChars}

Bodies == UNION {BodiesOfLen(n) : n \in 0..MaxBodyLen}

InputURLs == {p \o b : p \in {<<>>, HTTP, HTTPS}, b \in Bodies}

SanInit ==
    /\ sanPc = "input"
    /\ sanIn \in InputURLs
    /\ sanOut = <<>>
    /\ RefInit /\ ReqIdle /\ RdIdle /\ DialIdle

\* sanitizeURL(u)
SanitizeOnce ==
    /\ sanPc = "input"
    /\ sanOut' = sanitizeURL(sanIn)
    /\ sanPc' = "once"
    /\ UNCHANGED <<sanIn, refVars, reqVars, rdVars, dialVars>>

\* sanitizeURL(sanitizeURL(u))
SanitizeTwice ==
    /\ sanPc = "once"
    /\ sanOut' = sanitizeURL(sanOut)
    /\ sanPc' = "twice"
    /\ UNCHANGED <<sanIn, refVars, reqVars, rdVars, dialVars>>

SanNext == SanitizeOnce \/ SanitizeTwice

SpecSan == SanInit /\ [][SanNext]_vars

\* C8: sanitizeURL is idempotent: for every input URL u,
\* sanitizeURL(sanitizeURL(u)) = sanitizeURL(u).
C8_SanitizeIdempotent ==
    sanPc = "twice" => sanOut = sanitizeURL(sanIn)

(***************************************************************************)
(* doRequest on its own: one call for every answer of the transport        *)
(***************************************************************************)
ReqInit == ReqIdle /\ RefInit /\ SanIdle /\ RdIdle /\ DialIdle

\* bytes, err := fb.doRequest(ctx, method, body)
CallDoRequest(newReqOk, out) ==
    /\ reqPc = "idle"
    /\ reqIn' = [newReqOk |-> newReqOk, out |-> out]
    /\ reqRes' = doRequest(newReqOk, out)
    /\ reqPc' = "returned"
    /\ UNCHANGED <<refVars, sanVars, rdVars, dialVars>>

ReqNext == \E newReqOk \in BOOLEAN, out \in TransportOutcomes : CallDoRequest(newReqOk, out)

SpecReq == ReqInit /\ [][ReqNext]_vars

\* the transport delivered a response and its body was read
GotResponse ==
    /\ reqPc = "returned"
    /\ reqIn.newReqOk
    /\ reqIn.out.err = NoErr
    /\ reqIn.out.resp.readOk

\* the transport failed
TransportFailed ==
    /\ reqPc = "returned"
    /\ reqIn.newReqOk
    /\ reqIn.out.err # NoErr

\* C1: a response whose status is not in [200,300) gives an error whose message is
\* the response body and no bytes; a status in [200,300) gives the body and no error.
C1_Non2xxIsApplicationError ==
    GotResponse =>
       IF reqIn.out.resp.status \in 200..299
       THEN reqRes = [bytes |-> Bytes(reqIn.out.resp.body), err |-> NoErr]
       ELSE reqRes = [bytes |-> NoBytes, err |-> ErrorsNew(reqIn.out.resp.body)]

\* the transport's error is a timeout: a net.Error returned directly (not a
\* url.Error) whose Timeout() is true, or a url.Error whose wrapped error is a
\* net.Error whose Timeout() is true
IsTransportTimeout(e) ==
    CASE e.kind = "net" -> e.timeout
      [] e.kind = "url" -> IsNetError(e.wraps[1]) /\ Timeout(e.wraps[1])
      [] OTHER -> FALSE

\* C2: when the transport fails, doRequest returns no bytes, and returns ErrTimeout
\* wrapping the transport's error when that error is a timeout, and the transport's
\* error itself, unmodified, when it is not.
C2_TimeoutClassified ==
    TransportFailed =>
       /\ reqRes.bytes = NoBytes
       /\ IF IsTransportTimeout(reqIn.out.err)
          THEN reqRes.err = ErrTimeout(reqIn.out.err)
          ELSE reqRes.err = reqIn.out.err /\ reqRes.err.kind # "ErrTimeout"

\* a dial timeout returned directly has been classified
C2_Witness ==
    /\ TransportFailed
    /\ reqIn.out.err = NetErr(TRUE)
    /\ reqRes.err = ErrTimeout(NetErr(TRUE))

(***************************************************************************)
(* The redirect policy.  client.Do makes the first request, and for every  *)
(* 3xx answer builds the next request and asks the client's CheckRedirect   *)
(* with it and with via, the requests made so far; a request is modelled   *)
(* by its header, a map from key to value.                                 *)
(***************************************************************************)
defaultRedirectLimit == 30

\* the policy with >= for >: one redirect fewer is accepted
redirectPreserveHeaders_OffByOne(req, via) ==
    IF Len(via) = 0 THEN [rejected |-> FALSE, header |-> req]
    ELSE IF Len(via) >= defaultRedirectLimit THEN [rejected |-> TRUE, header |-> req]
    ELSE [rejected |-> FALSE,
          header |-> [k \in DOMAIN req \cup DOMAIN via[1] |->
                         IF k \in DOMAIN via[1] THEN via[1][k] ELSE req[k]]]

\* the policy setting only the keys the redirected request lacks
redirectPreserveHeaders_KeepsOwn(req, via) ==
    IF Len(via) = 0 THEN [rejected |-> FALSE, header |-> req]
    ELSE IF Len(via) > defaultRedirectLimit THEN [rejected |-> TRUE, header |-> req]
    ELSE [rejected |-> FALSE,
          header |-> [k \in DOMAIN req \cup DOMAIN via[1] |->
                         IF k \in DOMAIN req THEN req[k] ELSE via[1][k]]]

\* func redirectPreserveHeaders(req *http.Request, via []*http.Request) error:
\* whether it returns an error, and req.Header after it
redirectPreserveHeaders(req, via) ==
    IF Len(via) = 0 THEN [rejected |-> FALSE, header |-> req]
    ELSE IF Len(via) > defaultRedirectLimit THEN [rejected |-> TRUE, header |-> req]
    ELSE [rejected |-> FALSE,
          header |-> [k \in DOMAIN req \cup DOMAIN via[1] |->
                         IF k \in DOMAIN via[1] THEN via[1][k] ELSE req[k]]]

\* client.CheckRedirect(req, via): the policy New installed in the client it built.
\* A caller's client keeps its own policy, which leaves the request as it is; its
\* chains are followed up to MaxCallerHops.
CheckRedirect(client, req, via) ==
    IF client.checkRedirect = "redirectPreserveHeaders"
    THEN redirectPreserveHeaders(req, via)
    ELSE [rejected |-> FALSE, header |-> req]

\* the headers a first request can carry
FirstHeaders == UNION {[ks -> {"v"}] : ks \in SUBSET {"Authorization", "X-Trace"}}

\* the header client.Do gives the next request before asking the policy: the first
\* request's headers all kept, none kept, Authorization dropped or Authorization
\* left at another value; and a Referer
Proposals == {"keep", "none", "strip", "stale"}
ProposedHeader(first, how) ==
    LET kept == CASE how = "keep" -> DOMAIN first
                  [] how = "none" -> {}
                  [] how = "strip" -> DOMAIN first \ {"Authorization"}
                  [] how = "stale" -> DOMAIN first
    IN [k \in kept \cup {"Referer"} |->
           IF k = "Referer" THEN "r"
           ELSE IF k = "Authorization" /\ how = "stale" THEN "old"
           ELSE first[k]]

\* the error client.Do returns when the policy rejects a redirect
PolicyErr == UrlErr([kind |-> "plain", timeout |-> FALSE, wraps |-> <<>>, msg |-> "redirects"])

RdInit == RdIdle /\ RefInit /\ SanIdle /\ ReqIdle /\ DialIdle

\* New(url, client): the client the reference gets
RdNew(client) ==
    /\ rdPc = "new"
    /\ rdGiven' = client
    /\ rdClient' = IF client = NilClient THEN DefaultClient ELSE CallerClient
    /\ rdPc' = "ready"
    /\ UNCHANGED <<rdVia, rdLast, rdRes, refVars, sanVars, reqVars, dialVars>>

\* doRequest: fb.client.Do(req) sends the first request
RdSend(h) ==
    /\ rdPc = "ready"
    /\ rdVia' = <<h>>
    /\ rdPc' = "sent"
    /\ UNCHANGED <<rdGiven, rdClient, rdLast, rdRes, refVars, sanVars, reqVars, dialVars>>

\* the server answers 3xx: the policy is asked, and the next request is made or
\* client.Do returns the policy's error to doRequest
RdRedirect(how) ==
    /\ rdPc = "sent"
    /\ rdClient.checkRedirect = "nil" => Len(rdVia) <= MaxCallerHops
    /\ LET req == ProposedHeader(rdVia[1], how)
           r == CheckRedirect(rdClient, req, rdVia)
       IN /\ rdLast' = [n |-> Len(rdVia), rejected |-> r.rejected, proposed |-> req]
          /\ IF r.rejected
             THEN /\ rdPc' = "returned"
                  /\ rdRes' = doRequest(TRUE, [err |-> PolicyErr, resp |-> NoResponse])
                  /\ UNCHANGED rdVia
             ELSE /\ rdVia' = Append(rdVia, r.header)
                  /\ UNCHANGED <<rdPc, rdRes>>
    /\ UNCHANGED <<rdGiven, rdClient, refVars, sanVars, reqVars, dialVars>>

\* the server answers with a status that is not a redirect
RdAnswer(status, body) ==
    /\ rdPc = "sent"
    /\ rdPc' = "returned"
    /\ rdRes' = doRequest(TRUE, [err |-> NoErr, resp |-> Response(status, body, TRUE)])
    /\ UNCHANGED <<rdGiven, rdClient, rdVia, rdLast, refVars, sanVars, reqVars, dialVars>>

RdNext ==
    \/ \E c \in {NilClient, 1} : RdNew(c)
    \/ \E h \in FirstHeaders : RdSend(h)
    \/ \E how \in Proposals : RdRedirect(how)
    \/ \E st \in {200, 404}, b \in {"{}", "permission denied"} : RdAnswer(st, b)

SpecRedirect == RdInit /\ [][RdNext]_vars

\* every request after the first carries every header key of the first request,
\* with the first request's value
FirstHeadersCarried ==
    \A n \in 2..Len(rdVia) :
       \A k \in DOMAIN rdVia[1] :
          k \in DOMAIN rdVia[n] /\ rdVia[n][k] = rdVia[1][k]

\* C3 as stated: with any client, each redirected request carries the first
\* request's headers.
C3_RedirectsCarryFirstHeaders == FirstHeadersCarried

\* C3 (amended): when New was given no client, each redirected request the policy
\* accepts carries every header key of the first request with the first request's
\* value, at every hop.
C3_DefaultClientCarriesFirstHeaders ==
    rdGiven = NilClient => FirstHeadersCarried

\* a second redirect followed by the client New built, for which client.Do had
\* left Authorization at another value
C3_Witness ==
    /\ rdGiven = NilClient
    /\ rdPc = "sent"
    /\ Len(rdVia) >= 3
    /\ "Authorization" \in DOMAIN rdVia[1]
    /\ "Authorization" \in DOMAIN rdLast.proposed
    /\ rdLast.proposed["Authorization"] = "old"
    /\ ~rdLast.rejected

\* C4: with the client New builds, redirect number n is rejected exactly when
\* n > defaultRedirectLimit, so at most defaultRedirectLimit redirects are
\* followed, and a rejection ends doRequest with the transport's error and no bytes.
C4_RedirectLimit ==
    rdGiven = NilClient /\ rdPc # "new" =>
       /\ Len(rdVia) <= defaultRedirectLimit + 1
       /\ rdLast.n >= 1 => (rdLast.rejected <=> rdLast.n > defaultRedirectLimit)
       /\ rdLast.rejected =>
             /\ rdPc = "returned"
             /\ rdRes = [bytes |-> NoBytes, err |-> PolicyErr]

\* redirect number defaultRedirectLimit + 1 has been rejected
C4_Witness ==
    /\ rdGiven = NilClient
    /\ rdLast.rejected
    /\ rdLast.n = defaultRedirectLimit + 1
    /\ Len(rdVia) = defaultRedirectLimit + 1

(***************************************************************************)
(* The Dial hook of the transport New builds.  Each request through the    *)
(* transport dials (keep-alives are disabled), the hook stores the time    *)
(* left in tr.ResponseHeaderTimeout, and the transport reads that field    *)
(* when it starts waiting for the response headers.  Time is counted in    *)
(* units of ten seconds.                                                   *)
(***************************************************************************)
TimeoutDuration == 3

DialInit == DialIdle /\ RefInit /\ SanIdle /\ ReqIdle /\ RdIdle

\* Dial: net.DialTimeout returns after elapsed, then the hook writes the field
Dial(q, elapsed, ok) ==
    /\ dl[q].pc = "idle"
    /\ elapsed = TimeoutDuration => ~ok
    /\ trRHT' = TimeoutDuration - elapsed
    /\ dl' = [dl EXCEPT ![q] = [pc |-> IF ok THEN "connected" ELSE "failed",
                                elapsed |-> elapsed,
                                budget |-> 0]]
    /\ UNCHANGED <<refVars, sanVars, reqVars, rdVars>>

\* the transport starts the header wait of request q with the field's value
AwaitHeaders(q) ==
    /\ dl[q].pc = "connected"
    /\ dl' = [dl EXCEPT ![q].pc = "waiting", ![q].budget = trRHT]
    /\ UNCHANGED <<trRHT, refVars, sanVars, reqVars, rdVars>>

\* client.Do returns to doRequest
Return(q) ==
    /\ dl[q].pc \in {"waiting", "failed"}
    /\ dl' = [dl EXCEPT ![q] = [pc |-> "idle", elapsed |-> 0, budget |-> 0]]
    /\ UNCHANGED <<trRHT, refVars, sanVars, reqVars, rdVars>>

DialNext ==
    \/ \E q \in 1..MaxInFlight, e \in 0..TimeoutDuration, ok \in BOOLEAN : Dial(q, e, ok)
    \/ \E q \in 1..MaxInFlight : AwaitHeaders(q)
    \/ \E q \in 1..MaxInFlight : Return(q)

SpecDial == DialInit /\ [][DialNext]_vars

\* C10: no request changes the transport's configuration under another request:
\* the header wait of a request gets what that request's own dial left of
\* TimeoutDuration, whatever the other requests in flight do.
C10_HeaderBudgetIsOwn ==
    \A q \in 1..MaxInFlight :
       dl[q].pc = "waiting" => dl[q].budget = TimeoutDuration - dl[q].elapsed

====
